---- MODULE Spec2Model ----
(***************************************************************************)
(* SmartRouter (backend/app/core/router.py): task classification, the      *)
(* provider preference table, quality scoring and the multi-attempt        *)
(* fallback traversal of route_task.                                       *)
(*                                                                         *)
(* Strings the code inspects character by character (prompts, keywords)    *)
(* are sequences of one-character strings.  Enum members are their values. *)
(***************************************************************************)
EXTENDS Integers, Sequences, FiniteSets, TLC

VARIABLES
    pc,               \* position of the route_task coroutine: idle, await, ready, done
    prompt,           \* route_task argument
    task_type_arg,    \* route_task argument task_type (None when omitted)
    max_attempts,     \* route_task argument
    task_type,        \* local: resolved task type
    preferred_models, \* local: the list iterated
    attempt,          \* local: outer loop variable, 0-based
    idx,              \* local: position of model_name in preferred_models, 1-based
    last_error,       \* local
    reply,            \* what the awaited _call_model produced (result or exception)
    outcome,          \* what route_task returned (or the exception it let escape)
    calls,            \* observation: adapters invoked by this route call, in order
    best,             \* observation: best kind of adapter result seen in this route call
    roundScores,      \* observation: scores of the successes of the current attempt round
    lastFail,         \* observation: error of the most recent failed adapter call
    classified,       \* observation: classify_task was consulted by this route call
    inflight,         \* observation: ordinals of the adapter calls not yet completed
    unconfigured,     \* the clients constructed without an API key (gemini, groq)
    cls_prompt,       \* classify_task driver: the prompt classified
    cls_result,       \* classify_task driver: result of the latest call
    cls_prev,         \* classify_task driver: result of the call before it
    q_input,          \* quality_check driver: the result scored
    q_output,         \* quality_check driver: what quality_check did with it
    e_prompt,         \* _enhance_prompt driver: the prompt passed
    e_type,           \* _enhance_prompt driver: the task type passed
    e_output,         \* _enhance_prompt driver: the string returned
    g_adapter,        \* generate driver: the client called
    g_remote,         \* generate driver: what its remote call did
    g_output,         \* generate driver: what generate returned (or let escape)
    co,               \* concurrent routes: each route_task coroutine (position,
                      \* arguments, awaited call, outcome, and the course it
                      \* takes from its own arguments and results alone)
    locals,           \* concurrent routes: the local variables of each scope
    mai,              \* MultiAIEngine: its attributes and the generate call in progress
    ult,              \* UltimateAI: its attributes and the generate call in progress
    key_data,         \* verify_api_key: the api_keys_db entry of the one key
    verifiers,        \* verify_api_key: the calls in progress, one per worker thread
    clock,            \* verify_api_key: the clock hour datetime.utcnow() falls in
    admitted,         \* observation: requests admitted per clock hour
    active_connections, \* generate.py: the module-level list of WebSockets
    sockets,          \* each WebSocket: not yet connected, open, closed by the
                      \* client with its endpoint still running, or ended
    broadcast         \* the broadcast_update call: its position, its list
                      \* iterator, its locals, and what it delivered

vars == <<pc, prompt, task_type_arg, max_attempts, task_type, preferred_models,
          attempt, idx, last_error, reply, outcome, calls, best, roundScores,
          lastFail, classified, inflight, unconfigured, cls_prompt, cls_result, cls_prev,
          q_input, q_output, e_prompt, e_type, e_output,
          g_adapter, g_remote, g_output, co, locals, mai, ult,
          key_data, verifiers, clock, admitted,
          active_connections, sockets, broadcast>>

routeVars == <<pc, prompt, task_type_arg, max_attempts, task_type, preferred_models,
               attempt, idx, last_error, reply, outcome, calls, best, roundScores,
               lastFail, classified, inflight, unconfigured>>

clsVars == <<cls_prompt, cls_result, cls_prev>>

qVars == <<q_input, q_output>>

eVars == <<e_prompt, e_type, e_output>>

gVars == <<g_adapter, g_remote, g_output>>

coVars == <<co, locals>>

engineVars == <<mai>>

ultimateVars == <<ult>>

limitVars == <<key_data, verifiers, clock, admitted>>

wsVars == <<active_connections, sockets, broadcast>>

None == "None"

\* ---------------------------------------------------------------- bounds

\* route_task is explored for max_attempts in 1..MaxAttempts
MaxAttempts == 2

\* classify_task is explored on prompts of up to MaxWords vocabulary words
MaxWords == 2

\* nested UltimateAI.generate frames the interpreter allows before it raises
\* RecursionError (sys.getrecursionlimit() is 1000 by default)
RecursionLimit == 3

\* verify_api_key is explored for up to MaxRequests requests with the one key
MaxRequests == 3

\* and over the clock hours 0..MaxHours
MaxHours == 1

\* ---------------------------------------------------------------- TaskType

CREATIVE_UI == "creative_ui"
CODE_GENERATION == "code_generation"
ARCHITECTURE == "architecture"
DEBUGGING == "debugging"
FAST_SIMPLE == "fast_simple"
MULTIMODAL == "multimodal"
MODELING_3D == "3d_modeling"
PLANNING == "planning"
REFACTORING == "refactoring"

TaskType ==
    { CREATIVE_UI, CODE_GENERATION, ARCHITECTURE, DEBUGGING, FAST_SIMPLE,
      MULTIMODAL, MODELING_3D, PLANNING, REFACTORING }

\* a table that names a provider _call_model has no branch for
PreferencesWithUnknownProvider ==
    [ t \in TaskType |->
        IF t = FAST_SIMPLE THEN <<"groq", "mistral">> ELSE <<"claude", "gpt-4">> ]

model_preferences ==
    [ t \in TaskType |->
        CASE t = CREATIVE_UI     -> <<"claude", "gpt-4", "gemini">>
          [] t = CODE_GENERATION -> <<"claude", "gpt-4", "gemini">>
          [] t = ARCHITECTURE    -> <<"claude", "gpt-4">>
          [] t = DEBUGGING       -> <<"gpt-4", "claude">>
          [] t = FAST_SIMPLE     -> <<"groq", "claude">>
          [] t = MULTIMODAL      -> <<"gemini", "gpt-4">>
          [] t = MODELING_3D     -> <<"claude", "gpt-4">>
          [] t = PLANNING        -> <<"claude", "gpt-4">>
          [] t = REFACTORING     -> <<"claude", "gpt-4">> ]

\* ---------------------------------------------------------------- classify_task

UpperCase == <<"A","B","C","D","E","F","G","H","I","J","K","L","M",
               "N","O","P","Q","R","S","T","U","V","W","X","Y","Z">>

LowerCase == <<"a","b","c","d","e","f","g","h","i","j","k","l","m",
               "n","o","p","q","r","s","t","u","v","w","x","y","z">>

\* str.lower() on one character
LowerChar(c) ==
    IF \E i \in 1..26 : UpperCase[i] = c
    THEN LowerCase[CHOOSE i \in 1..26 : UpperCase[i] = c]
    ELSE c

\* str.lower()
Lower(s) == [i \in 1..Len(s) |-> LowerChar(s[i])]

\* keyword in s
Contains(s, keyword) ==
    \E i \in 1..(Len(s) - Len(keyword) + 1) :
        SubSeq(s, i, i + Len(keyword) - 1) = keyword

\* any(keyword in s for keyword in keywords)
AnyKeyword(s, keywords) == \E keyword \in keywords : Contains(s, keyword)

Whitespace == {" ", "\t", "\n", "\r"}

\* len(s.split()): the maximal runs of non-whitespace characters
WordCount(s) ==
    Cardinality({ i \in 1..Len(s) :
                    /\ s[i] \notin Whitespace
                    /\ (i = 1 \/ s[i-1] \in Whitespace) })

\* the creative/UI list without "ui"
CreativeUiKeywordsWithoutUi ==
    { <<"d","e","s","i","g","n">>,
      <<"u","x">>,
      <<"i","n","t","e","r","f","a","c","e">>,
      <<"l","a","y","o","u","t">>,
      <<"s","t","y","l","i","n","g">>,
      <<"b","e","a","u","t","i","f","u","l">>,
      <<"m","o","d","e","r","n">>,
      <<"r","e","s","p","o","n","s","i","v","e">>,
      <<"f","r","o","n","t","e","n","d">> }

CreativeUiKeywords ==
    { <<"d","e","s","i","g","n">>,
      <<"u","i">>,
      <<"u","x">>,
      <<"i","n","t","e","r","f","a","c","e">>,
      <<"l","a","y","o","u","t">>,
      <<"s","t","y","l","i","n","g">>,
      <<"b","e","a","u","t","i","f","u","l">>,
      <<"m","o","d","e","r","n">>,
      <<"r","e","s","p","o","n","s","i","v","e">>,
      <<"f","r","o","n","t","e","n","d">> }

Modeling3dKeywords ==
    { <<"3","d">>,
      <<"b","l","e","n","d","e","r">>,
      <<"u","n","i","t","y">>,
      <<"m","o","d","e","l">>,
      <<"a","n","i","m","a","t","i","o","n">>,
      <<"g","a","m","e">> }

MultimodalKeywords ==
    { <<"i","m","a","g","e">>,
      <<"p","i","c","t","u","r","e">>,
      <<"v","i","s","u","a","l">>,
      <<"s","c","r","e","e","n","s","h","o","t">>,
      <<"d","i","a","g","r","a","m">> }

ArchitectureKeywords ==
    { <<"a","r","c","h","i","t","e","c","t","u","r","e">>,
      <<"s","t","r","u","c","t","u","r","e">>,
      <<"d","e","s","i","g","n"," ","p","a","t","t","e","r","n">>,
      <<"s","c","a","l","a","b","l","e">>,
      <<"s","y","s","t","e","m"," ","d","e","s","i","g","n">>,
      <<"d","a","t","a","b","a","s","e"," ","s","c","h","e","m","a">> }

DebuggingKeywords ==
    { <<"d","e","b","u","g">>,
      <<"f","i","x">>,
      <<"e","r","r","o","r">>,
      <<"b","u","g">>,
      <<"i","s","s","u","e">>,
      <<"p","r","o","b","l","e","m">>,
      <<"n","o","t"," ","w","o","r","k","i","n","g">>,
      <<"b","r","o","k","e","n">> }

PlanningKeywords ==
    { <<"p","l","a","n">>,
      <<"b","r","e","a","k","d","o","w","n">>,
      <<"s","t","e","p","s">>,
      <<"h","o","w"," ","t","o">>,
      <<"i","m","p","l","e","m","e","n","t">>,
      <<"b","u","i","l","d">>,
      <<"c","r","e","a","t","e"," ","p","r","o","j","e","c","t">> }

RefactoringKeywords ==
    { <<"r","e","f","a","c","t","o","r">>,
      <<"i","m","p","r","o","v","e">>,
      <<"o","p","t","i","m","i","z","e">>,
      <<"c","l","e","a","n">>,
      <<"r","e","w","r","i","t","e">> }

FastSimpleKeywords ==
    { <<"s","i","m","p","l","e">>,
      <<"b","a","s","i","c">>,
      <<"q","u","i","c","k">>,
      <<"s","m","a","l","l">> }

\* the fast/simple check also requires fewer than FastSimpleWords words
FastSimpleWords == 20

\* classify_task with the debugging check moved in front of the creative/UI check
ClassifyDebugFirst(p) ==
    LET prompt_lower == Lower(p) IN
    IF AnyKeyword(prompt_lower, DebuggingKeywords) THEN DEBUGGING
    ELSE IF AnyKeyword(prompt_lower, CreativeUiKeywords) THEN CREATIVE_UI
    ELSE IF AnyKeyword(prompt_lower, Modeling3dKeywords) THEN MODELING_3D
    ELSE IF AnyKeyword(prompt_lower, MultimodalKeywords) THEN MULTIMODAL
    ELSE IF AnyKeyword(prompt_lower, ArchitectureKeywords) THEN ARCHITECTURE
    ELSE IF AnyKeyword(prompt_lower, PlanningKeywords) THEN PLANNING
    ELSE IF AnyKeyword(prompt_lower, RefactoringKeywords) THEN REFACTORING
    ELSE IF WordCount(p) < FastSimpleWords
            /\ AnyKeyword(prompt_lower, FastSimpleKeywords) THEN FAST_SIMPLE
    ELSE CODE_GENERATION

\* classify_task falling back to fast/simple instead of code generation
ClassifyDefaultFast(p) ==
    LET prompt_lower == Lower(p) IN
    IF AnyKeyword(prompt_lower, CreativeUiKeywords) THEN CREATIVE_UI
    ELSE IF AnyKeyword(prompt_lower, Modeling3dKeywords) THEN MODELING_3D
    ELSE IF AnyKeyword(prompt_lower, MultimodalKeywords) THEN MULTIMODAL
    ELSE IF AnyKeyword(prompt_lower, ArchitectureKeywords) THEN ARCHITECTURE
    ELSE IF AnyKeyword(prompt_lower, DebuggingKeywords) THEN DEBUGGING
    ELSE IF AnyKeyword(prompt_lower, PlanningKeywords) THEN PLANNING
    ELSE IF AnyKeyword(prompt_lower, RefactoringKeywords) THEN REFACTORING
    ELSE FAST_SIMPLE

\* classify_task without its final return: Python then returns None
ClassifyNoDefault(p) ==
    LET prompt_lower == Lower(p) IN
    IF AnyKeyword(prompt_lower, CreativeUiKeywords) THEN CREATIVE_UI
    ELSE IF AnyKeyword(prompt_lower, Modeling3dKeywords) THEN MODELING_3D
    ELSE IF AnyKeyword(prompt_lower, MultimodalKeywords) THEN MULTIMODAL
    ELSE IF AnyKeyword(prompt_lower, ArchitectureKeywords) THEN ARCHITECTURE
    ELSE IF AnyKeyword(prompt_lower, DebuggingKeywords) THEN DEBUGGING
    ELSE IF AnyKeyword(prompt_lower, PlanningKeywords) THEN PLANNING
    ELSE IF AnyKeyword(prompt_lower, RefactoringKeywords) THEN REFACTORING
    ELSE IF WordCount(p) < FastSimpleWords
            /\ AnyKeyword(prompt_lower, FastSimpleKeywords) THEN FAST_SIMPLE
    ELSE None

\* "len(prompt.split()) <= 20" in place of "len(prompt.split()) < 20"
ClassifyAtMostTwentyWords(p) ==
    LET prompt_lower == Lower(p) IN
    IF AnyKeyword(prompt_lower, CreativeUiKeywords) THEN CREATIVE_UI
    ELSE IF AnyKeyword(prompt_lower, Modeling3dKeywords) THEN MODELING_3D
    ELSE IF AnyKeyword(prompt_lower, MultimodalKeywords) THEN MULTIMODAL
    ELSE IF AnyKeyword(prompt_lower, ArchitectureKeywords) THEN ARCHITECTURE
    ELSE IF AnyKeyword(prompt_lower, DebuggingKeywords) THEN DEBUGGING
    ELSE IF AnyKeyword(prompt_lower, PlanningKeywords) THEN PLANNING
    ELSE IF AnyKeyword(prompt_lower, RefactoringKeywords) THEN REFACTORING
    ELSE IF WordCount(p) <= FastSimpleWords
            /\ AnyKeyword(prompt_lower, FastSimpleKeywords) THEN FAST_SIMPLE
    ELSE CODE_GENERATION

classify_task(p) ==
    LET prompt_lower == Lower(p) IN
    IF AnyKeyword(prompt_lower, CreativeUiKeywords) THEN CREATIVE_UI
    ELSE IF AnyKeyword(prompt_lower, Modeling3dKeywords) THEN MODELING_3D
    ELSE IF AnyKeyword(prompt_lower, MultimodalKeywords) THEN MULTIMODAL
    ELSE IF AnyKeyword(prompt_lower, ArchitectureKeywords) THEN ARCHITECTURE
    ELSE IF AnyKeyword(prompt_lower, DebuggingKeywords) THEN DEBUGGING
    ELSE IF AnyKeyword(prompt_lower, PlanningKeywords) THEN PLANNING
    ELSE IF AnyKeyword(prompt_lower, RefactoringKeywords) THEN REFACTORING
    ELSE IF WordCount(p) < FastSimpleWords
            /\ AnyKeyword(prompt_lower, FastSimpleKeywords) THEN FAST_SIMPLE
    ELSE CODE_GENERATION

\* ---------------------------------------------------------------- prompts explored

Vocabulary ==
    { <<"h","e","l","l","o">>,
      <<"U","I">>,
      <<"F","i","x">>,
      <<"b","u","g">>,
      <<"b","u","i","l","d">>,
      <<"q","u","i","c","k">>,
      <<"s","i","m","p","l","e">>,
      <<"3","D">>,
      <<"i","m","a","g","e">>,
      <<"p","l","a","n">>,
      <<"r","e","f","a","c","t","o","r">>,
      <<"s","t","r","u","c","t","u","r","e">> }

RECURSIVE Phrases(_)
\* the prompts of exactly n vocabulary words separated by single spaces
Phrases(n) ==
    IF n = 0 THEN { <<>> }
    ELSE IF n = 1 THEN Vocabulary
    ELSE { p \o <<" ">> \o w : p \in Phrases(n - 1), w \in Vocabulary }

\* prompts of the classifier's documented examples
ExamplePrompts ==
    { <<"d","e","s","i","g","n"," ","a"," ","d","e","b","u","g"," ","f","i","x"," ","f","o","r"," ","t","h","e"," ","U","I">>,
      <<"h","e","l","l","o">> }

\* w followed by n - 1 one-letter words
Padded(w, n) == w \o [i \in 1..(2 * (n - 1)) |-> IF i % 2 = 1 THEN " " ELSE "a"]

\* prompts of one word less than, exactly, and one word more than the
\* fast/simple word limit, led by a fast/simple keyword or by none
LongPrompts ==
    { Padded(w, n) :
        w \in FastSimpleKeywords \cup { <<"B","a","s","i","c">>, <<"h","e","l","l","o">> },
        n \in (FastSimpleWords - 1)..(FastSimpleWords + 1) }

\* prompts with the keywords that contain a creative/UI keyword
SubstringPrompts ==
    { <<"a"," ","d","e","s","i","g","n"," ","p","a","t","t","e","r","n">>,
      <<"S","y","s","t","e","m"," ","D","e","s","i","g","n">>,
      <<"B","U","I","L","D"," ","i","t">>,
      <<"a"," ","q","u","i","c","k"," ","s","c","a","l","a","b","l","e"," ","p","l","a","n">> }

Prompts ==
    UNION { Phrases(n) : n \in 0..MaxWords }
    \cup ExamplePrompts \cup LongPrompts \cup SubstringPrompts

RoutePrompts ==
    { <<"h","e","l","l","o">>,
      <<"F","i","x"," ","b","u","g">> }

\* ---------------------------------------------------------------- quality_check

\* Scores are Python floats.  A score is written in units of 0.0001, and the
\* double just below k/10 (0.8999999999999999, ...) as 1000*k - 1.
BaseScore == 5000
LengthBonus == 2000
CodeBlockBonus == 2000
ExplanationBonus == 1000
MaxScore == 10000
QualityThreshold == 7000
MinGoodLength == 100
MaxGoodLength == 2000

\* a + b in IEEE-754 double arithmetic, on the sums quality_check forms
FloatAdd(a, b) ==
    CASE a = 5000 /\ b = 2000 -> 7000     \* 0.5 + 0.2 = 0.7
      [] a = 5000 /\ b = 1000 -> 6000     \* 0.5 + 0.1 = 0.6
      [] a = 7000 /\ b = 2000 -> 8999     \* 0.7 + 0.2 = 0.8999999999999999
      [] a = 7000 /\ b = 1000 -> 7999     \* 0.7 + 0.1 = 0.7999999999999999
      [] a = 8999 /\ b = 1000 -> 9999     \* 0.8999999999999999 + 0.1 = 0.9999999999999999
      [] OTHER -> a + b

Min(a, b) == IF a <= b THEN a ELSE b

\* A response text, by what quality_check reads of it; none: the value is None.
Text(n, fence, explain) ==
    [none |-> FALSE, len |-> n, fence |-> fence, explain |-> explain]

NoneText == [none |-> TRUE, len |-> 0, fence |-> FALSE, explain |-> FALSE]

\* result.get("success"): a missing key reads as None
GetSuccess(result) == "success" \in DOMAIN result /\ result.success

\* result.get("content", "")
GetContent(result) ==
    IF "content" \in DOMAIN result THEN result.content ELSE Text(0, FALSE, FALSE)

\* quality_check that scores a result without looking at its success flag
QualityNoSuccessCheck(result) ==
    IF GetContent(result).none THEN [raised |-> TRUE, score |-> 0]
    ELSE
      LET content == GetContent(result)
          q0 == BaseScore
          q1 == IF MinGoodLength <= content.len /\ content.len <= MaxGoodLength
                THEN FloatAdd(q0, LengthBonus) ELSE q0
          q2 == IF content.fence THEN FloatAdd(q1, CodeBlockBonus) ELSE q1
          q3 == IF content.explain THEN FloatAdd(q2, ExplanationBonus) ELSE q2
      IN [raised |-> FALSE, score |-> Min(q3, MaxScore)]

\* quality_check whose length test has no upper bound
QualityLengthOpenEnded(result) ==
    IF ~GetSuccess(result) THEN [raised |-> FALSE, score |-> 0]
    ELSE IF GetContent(result).none THEN [raised |-> TRUE, score |-> 0]
    ELSE
      LET content == GetContent(result)
          q0 == BaseScore
          q1 == IF MinGoodLength <= content.len
                THEN FloatAdd(q0, LengthBonus) ELSE q0
          q2 == IF content.fence THEN FloatAdd(q1, CodeBlockBonus) ELSE q1
          q3 == IF content.explain THEN FloatAdd(q2, ExplanationBonus) ELSE q2
      IN [raised |-> FALSE, score |-> Min(q3, MaxScore)]

\* quality_check(result): raised is the TypeError of len(None)
quality_check(result) ==
    IF ~GetSuccess(result) THEN [raised |-> FALSE, score |-> 0]
    ELSE IF GetContent(result).none THEN [raised |-> TRUE, score |-> 0]
    ELSE
      LET content == GetContent(result)
          q0 == BaseScore
          q1 == IF MinGoodLength <= content.len /\ content.len <= MaxGoodLength
                THEN FloatAdd(q0, LengthBonus) ELSE q0
          q2 == IF content.fence THEN FloatAdd(q1, CodeBlockBonus) ELSE q1
          q3 == IF content.explain THEN FloatAdd(q2, ExplanationBonus) ELSE q2
      IN [raised |-> FALSE, score |-> Min(q3, MaxScore)]

\* The results quality_check is explored on: texts around the length limits
\* (a code block marker takes 3 characters, an explanatory word at least 6),
\* a None content, and results without content or without success flag.
QualityLengths == {0, 3, 6, 9, 99, 100, 101, 150, 1999, 2000, 2001, 5000}

QualityTexts ==
    { x \in [none : {FALSE}, len : QualityLengths, fence : BOOLEAN, explain : BOOLEAN] :
        x.len >= (IF x.fence THEN 3 ELSE 0) + (IF x.explain THEN 6 ELSE 0) }

QualityModels == {"gpt-4-turbo-preview", "gemini-pro"}

QualityInputs ==
    [success : BOOLEAN, content : QualityTexts \cup {NoneText}, model : QualityModels]
    \cup [success : BOOLEAN, error : {<<"remote call failed", "gpt-4", 1>>},
          model : QualityModels]
    \cup [model : QualityModels]

\* ---------------------------------------------------------------- provider adapters

Adapters == {"claude", "gpt-4", "gemini", "groq"}

\* the default model of each client's generate
ModelId(adapter) ==
    CASE adapter = "claude" -> "claude-3-sonnet-20240229"
      [] adapter = "gpt-4"  -> "gpt-4-turbo-preview"
      [] adapter = "gemini" -> "gemini-pro"
      [] adapter = "groq"   -> "mixtral-8x7b-32768"

NoError == <<"None", "", 0>>
RemoteError(adapter, n) == <<"remote call failed", adapter, n>>
NotConfigured(adapter) == <<"API key not configured", adapter, 0>>
TypeErrorText == <<"object of type 'NoneType' has no len()", "", 0>>
UnknownModel(name) == <<"Unknown model", name, 0>>

\* no result awaited yet
NoReply == [success |-> FALSE, error |-> NoError, model |-> ""]

Success(text, adapter) ==
    [success |-> TRUE, content |-> text, model |-> ModelId(adapter),
     usage |-> "usage"]

Failure(err, adapter) ==
    [success |-> FALSE, error |-> err, model |-> ModelId(adapter)]

\* The texts a remote service answers with in the exploration.
Texts ==
    { Text(0, FALSE, FALSE),        \* empty completion: 0.5
      Text(40, FALSE, TRUE),        \* short explanation: 0.6
      Text(150, FALSE, FALSE),      \* medium length: 0.7
      Text(150, TRUE, TRUE) }       \* medium length, code block, explanation

\* What the remote call of an adapter can do: answer with a text, answer with
\* no text (message.content of the chat completion APIs is optional), or raise.
Remotes(adapter) ==
    [raises : {FALSE}, text : Texts]
    \cup (IF adapter \in {"gpt-4", "groq"}
          THEN {[raises |-> FALSE, text |-> NoneText]} ELSE {})
    \cup {[raises |-> TRUE, text |-> NoneText]}

\* generate without its try/except: an exception of the remote call escapes
GenerateUnguarded(adapter, unconf, remote, n) ==
    IF adapter \in {"gemini", "groq"} /\ adapter \in unconf
    THEN Failure(NotConfigured(adapter), adapter)
    ELSE IF remote.raises
    THEN [raised |-> RemoteError(adapter, n)]
    ELSE Success(remote.text, adapter)

\* generate without the "if not self.model / if not self.client" return
GenerateNoKeyCheck(adapter, unconf, remote, n) ==
    IF remote.raises
    THEN Failure(RemoteError(adapter, n), adapter)
    ELSE Success(remote.text, adapter)

\* <Client>.generate(prompt) for the n-th call of a route, given what the remote does
generate(adapter, unconf, remote, n) ==
    IF adapter \in {"gemini", "groq"} /\ adapter \in unconf
    THEN Failure(NotConfigured(adapter), adapter)
    ELSE IF remote.raises
    THEN Failure(RemoteError(adapter, n), adapter)
    ELSE Success(remote.text, adapter)

\* _call_model dispatch: the adapter a model name is sent to, or the ValueError
call_model(model_name) ==
    IF model_name \in Adapters
    THEN [raised |-> FALSE, adapter |-> model_name]
    ELSE [raised |-> TRUE, adapter |-> None]

\* ---------------------------------------------------------------- route_task

\* route_task classifying whatever the caller passed
AlwaysClassify(t, p) == [consulted |-> TRUE, value |-> classify_task(p)]

\* "if not task_type: task_type = self.classify_task(prompt)"
ResolveTaskType(t, p) ==
    IF t = None
    THEN [consulted |-> TRUE, value |-> classify_task(p)]
    ELSE [consulted |-> FALSE, value |-> t]

\* self.model_preferences.get(task_type, ["claude", "gpt-4"])
Preferred(t) ==
    IF t \in DOMAIN model_preferences THEN model_preferences[t]
    ELSE <<"claude", "gpt-4">>

\* "attempts" counting the adapter calls made instead of the rounds
SuccessOutcomeCountingCalls(result, tt, quality, a) ==
    [success |-> TRUE, content |-> result.content, model |-> result.model,
     task_type |-> tt, quality_score |-> quality, attempts |-> Len(calls),
     usage |-> result.usage]

SuccessOutcome(result, tt, quality, a) ==
    [success |-> TRUE, content |-> result.content, model |-> result.model,
     task_type |-> tt, quality_score |-> quality, attempts |-> a + 1,
     usage |-> result.usage]

FailureOutcome(err, tt, n) ==
    [success |-> FALSE, error |-> <<"All models failed. Last error: ", err>>,
     task_type |-> tt, attempts |-> n]

\* an exception leaving route_task
Escaped(err) == [raised |-> err]

NoOutcome == [returned |-> FALSE]

\* "quality > 0.7" in place of "quality >= 0.7"
AcceptAboveThreshold(quality, a, n) ==
    \/ quality > QualityThreshold
    \/ ~(a < n - 1)

\* a low-quality result of the last attempt not returned
AcceptOnlyGood(quality, a, n) == quality >= QualityThreshold

\* a low-quality result returned in any attempt
AcceptAny(quality, a, n) == TRUE

\* "attempt < max_attempts - 2" in place of "attempt < max_attempts - 1"
AcceptBeforeLast(quality, a, n) ==
    \/ quality >= QualityThreshold
    \/ ~(a < n - 2)

\* the two conditions under which a scored success is returned at once:
\* "if quality >= 0.7" and the else of "elif attempt < max_attempts - 1"
AcceptNow(quality, a, n) ==
    \/ quality >= QualityThreshold
    \/ ~(a < n - 1)

\* the exception not caught
ExceptReraises(e) == [act |-> "raise", last_error |-> e, value |-> NoOutcome]

\* "except Exception as e: last_error = str(e); continue"
ExceptClause(e) == [act |-> "continue", last_error |-> e, value |-> NoOutcome]

\* the error of a failed result not recorded
KeepLastError(result, err) == err

\* "else: last_error = result.get("error", "Unknown error")"
RecordFailure(result, err) == result.error

\* The body of the try statement for one awaited result: what the iteration
\* does (return a value, or go on with last_error).
Handle(result, a, n, tt, err) ==
    IF result.success
    THEN LET q == quality_check(result) IN
         IF q.raised THEN ExceptClause(TypeErrorText)
         ELSE IF AcceptNow(q.score, a, n)
         THEN [act |-> "return", last_error |-> err,
               value |-> SuccessOutcome(result, tt, q.score, a)]
         ELSE [act |-> "continue", last_error |-> err, value |-> NoOutcome]
    ELSE [act |-> "continue", last_error |-> RecordFailure(result, err),
          value |-> NoOutcome]

\* the provider list traversed once, whatever max_attempts
SeekOneRound(models, n, a, i, err) ==
    IF ~(a < n) \/ i > Len(models)
    THEN [act |-> "exhausted", attempt |-> a, idx |-> i, last_error |-> err]
    ELSE [act |-> "call", attempt |-> a, idx |-> i, last_error |-> err]

RECURSIVE SeekExtraRound(_, _, _, _, _)
\* "range(max_attempts + 1)" in place of "range(max_attempts)"
SeekExtraRound(models, n, a, i, err) ==
    IF ~(a < n + 1) THEN [act |-> "exhausted", attempt |-> a, idx |-> i, last_error |-> err]
    ELSE IF i > Len(models) THEN SeekExtraRound(models, n, a + 1, 1, err)
    ELSE IF call_model(models[i]).raised
    THEN SeekExtraRound(models, n, a, i + 1, ExceptClause(UnknownModel(models[i])).last_error)
    ELSE [act |-> "call", attempt |-> a, idx |-> i, last_error |-> err]

RECURSIVE SeekTwiceTheRounds(_, _, _, _, _)
\* "range(2 * max_attempts)" in place of "range(max_attempts)"
SeekTwiceTheRounds(models, n, a, i, err) ==
    IF ~(a < 2 * n) THEN [act |-> "exhausted", attempt |-> a, idx |-> i, last_error |-> err]
    ELSE IF i > Len(models) THEN SeekTwiceTheRounds(models, n, a + 1, 1, err)
    ELSE IF call_model(models[i]).raised
    THEN SeekTwiceTheRounds(models, n, a, i + 1, ExceptClause(UnknownModel(models[i])).last_error)
    ELSE [act |-> "call", attempt |-> a, idx |-> i, last_error |-> err]

RECURSIVE Seek(_, _, _, _, _)
\* The two for loops from iteration (a, i) on, up to the next await: the
\* position of the next adapter call, or the loops' end.  A model name that
\* _call_model does not know raises before any await and is caught.
Seek(models, n, a, i, err) ==
    IF ~(a < n) THEN [act |-> "exhausted", attempt |-> a, idx |-> i, last_error |-> err]
    ELSE IF i > Len(models) THEN Seek(models, n, a + 1, 1, err)
    ELSE IF call_model(models[i]).raised
    THEN Seek(models, n, a, i + 1, ExceptClause(UnknownModel(models[i])).last_error)
    ELSE [act |-> "call", attempt |-> a, idx |-> i, last_error |-> err]

\* Run route_task from loop iteration (a, i) to its next suspension or return.
Proceed(models, n, tt, a, i, err, made, oks) ==
    LET s == Seek(models, n, a, i, err) IN
    /\ attempt' = s.attempt
    /\ idx' = s.idx
    /\ last_error' = s.last_error
    /\ IF s.act = "call"
       THEN /\ pc' = "await"
            /\ calls' = Append(made, models[s.idx])
            /\ outcome' = NoOutcome
            /\ roundScores' = IF s.attempt = a THEN oks ELSE <<>>
            /\ inflight' = inflight \cup {Len(made) + 1}
       ELSE /\ pc' = "done"
            /\ calls' = made
            /\ outcome' = FailureOutcome(s.last_error, tt, n)
            /\ roundScores' = oks
            /\ inflight' = inflight

\* a caller invokes route_task(prompt, task_type, max_attempts)
RouteTask(p, t, n) ==
    /\ pc \in {"idle", "done"}
    /\ prompt' = p
    /\ task_type_arg' = t
    /\ max_attempts' = n
    /\ LET r == ResolveTaskType(t, p) IN
       /\ task_type' = r.value
       /\ classified' = r.consulted
       /\ preferred_models' = Preferred(r.value)
       /\ Proceed(Preferred(r.value), n, r.value, 0, 1, NoError, <<>>, <<>>)
    /\ reply' = NoReply
    /\ best' = "none"
    /\ lastFail' = NoError
    /\ UNCHANGED <<unconfigured, clsVars, qVars, eVars, gVars, coVars, engineVars, ultimateVars, limitVars, wsVars>>

ResultKind(result) ==
    IF ~result.success THEN "none"
    ELSE IF result.content.none THEN "unscorable"
    ELSE "scored"

Better(k1, k2) ==
    IF "scored" \in {k1, k2} THEN "scored"
    ELSE IF "unscorable" \in {k1, k2} THEN "unscorable"
    ELSE "none"

\* the coroutine suspended without the call having completed
StillRunning(outstanding, k) == outstanding

\* "await self._call_model(...)": the coroutine is resumed by the completion
\* of call k
Returned(outstanding, k) == outstanding \ {k}

\* the awaited adapter call completes with result r
Complete(r) ==
    /\ reply' = r
    /\ inflight' = Returned(inflight, Len(calls))
    /\ pc' = "ready"
    /\ best' = Better(best, ResultKind(r))
    /\ roundScores' = IF ResultKind(r) = "scored"
                      THEN Append(roundScores, quality_check(r).score)
                      ELSE roundScores
    /\ lastFail' = IF ~r.success THEN r.error
                   ELSE IF r.content.none THEN TypeErrorText
                   ELSE lastFail
    /\ UNCHANGED <<prompt, task_type_arg, max_attempts, task_type, preferred_models,
                   attempt, idx, last_error, outcome, calls, classified,
                   unconfigured, clsVars, qVars, eVars, gVars, coVars, engineVars, ultimateVars, limitVars, wsVars>>

\* a client without an API key answers without a remote call
AdapterUnavailable ==
    /\ pc = "await"
    /\ preferred_models[idx] \in unconfigured
    /\ Complete(generate(preferred_models[idx], unconfigured,
                         [raises |-> FALSE, text |-> NoneText], Len(calls)))

\* the remote call of the awaited adapter returns or raises
AdapterCompletes ==
    /\ pc = "await"
    /\ preferred_models[idx] \notin unconfigured
    /\ \E remote \in Remotes(preferred_models[idx]) :
          Complete(generate(preferred_models[idx], unconfigured, remote, Len(calls)))

\* route_task resumes with the awaited result
Resume ==
    /\ pc = "ready"
    /\ LET h == Handle(reply, attempt, max_attempts, task_type, last_error) IN
       CASE h.act = "return" ->
              /\ pc' = "done"
              /\ outcome' = h.value
              /\ UNCHANGED <<attempt, idx, last_error, calls, roundScores, inflight>>
         [] h.act = "raise" ->
              /\ pc' = "done"
              /\ outcome' = Escaped(h.last_error)
              /\ UNCHANGED <<attempt, idx, last_error, calls, roundScores, inflight>>
         [] h.act = "continue" ->
              Proceed(preferred_models, max_attempts, task_type,
                      attempt, idx + 1, h.last_error, calls, roundScores)
    /\ UNCHANGED <<prompt, task_type_arg, max_attempts, task_type, preferred_models,
                   reply, best, lastFail, classified, unconfigured, clsVars, qVars, eVars, gVars, coVars, engineVars, ultimateVars, limitVars, wsVars>>

\* ---------------------------------------------------------------- classify_task calls

NotCalled == "not called"

\* a caller classifies a prompt
Classify(p) ==
    /\ cls_result = NotCalled
    /\ cls_prompt' = p
    /\ cls_prev' = NotCalled
    /\ cls_result' = classify_task(p)
    /\ UNCHANGED <<routeVars, qVars, eVars, gVars, coVars, engineVars, ultimateVars, limitVars, wsVars>>

\* the caller classifies the same prompt again
ClassifyAgain ==
    /\ cls_result # NotCalled
    /\ cls_prev = NotCalled
    /\ cls_prev' = cls_result
    /\ cls_result' = classify_task(cls_prompt)
    /\ UNCHANGED <<cls_prompt, routeVars, qVars, eVars, gVars, coVars, engineVars, ultimateVars, limitVars, wsVars>>

\* ---------------------------------------------------------------- quality_check calls

NotScored == [raised |-> FALSE, score |-> -1]

\* a caller scores a result
Score(result) ==
    /\ q_output = NotScored
    /\ q_input' = result
    /\ q_output' = quality_check(result)
    /\ UNCHANGED <<routeVars, clsVars, eVars, gVars, coVars, engineVars, ultimateVars, limitVars, wsVars>>

\* ---------------------------------------------------------------- _enhance_prompt

CreativeUiEnhancer ==
    << "\n"," "," "," "," "," "," "," "," "," "," "," "," ","F","o","c",
       "u","s"," ","o","n"," ","c","r","e","a","t","i","n","g"," ","m",
       "o","d","e","r","n",","," ","b","e","a","u","t","i","f","u","l",
       ","," ","a","n","d"," ","r","e","s","p","o","n","s","i","v","e",
       " ","U","I","/","U","X"," ","d","e","s","i","g","n","s",".","\n",
       " "," "," "," "," "," "," "," "," "," "," "," ","U","s","e"," ",
       "c","o","n","t","e","m","p","o","r","a","r","y"," ","d","e","s",
       "i","g","n"," ","p","a","t","t","e","r","n","s"," ","a","n","d",
       " ","b","e","s","t"," ","p","r","a","c","t","i","c","e","s",".",
       "\n"," "," "," "," "," "," "," "," "," "," "," "," ","I","n","c",
       "l","u","d","e"," ","a","c","c","e","s","s","i","b","i","l","i",
       "t","y"," ","c","o","n","s","i","d","e","r","a","t","i","o","n",
       "s",".","\n"," "," "," "," "," "," "," "," "," "," "," "," " >>

CodeGenerationEnhancer ==
    << "\n"," "," "," "," "," "," "," "," "," "," "," "," ","W","r","i",
       "t","e"," ","c","l","e","a","n",","," ","m","a","i","n","t","a",
       "i","n","a","b","l","e",","," ","a","n","d"," ","w","e","l","l",
       "-","d","o","c","u","m","e","n","t","e","d"," ","c","o","d","e",
       ".","\n"," "," "," "," "," "," "," "," "," "," "," "," ","F","o",
       "l","l","o","w"," ","b","e","s","t"," ","p","r","a","c","t","i",
       "c","e","s"," ","a","n","d"," ","d","e","s","i","g","n"," ","p",
       "a","t","t","e","r","n","s",".","\n"," "," "," "," "," "," "," ",
       " "," "," "," "," ","I","n","c","l","u","d","e"," ","e","r","r",
       "o","r"," ","h","a","n","d","l","i","n","g"," ","w","h","e","r",
       "e"," ","a","p","p","r","o","p","r","i","a","t","e",".","\n"," ",
       " "," "," "," "," "," "," "," "," "," "," " >>

ArchitectureEnhancer ==
    << "\n"," "," "," "," "," "," "," "," "," "," "," "," ","F","o","c",
       "u","s"," ","o","n"," ","s","c","a","l","a","b","l","e",","," ",
       "m","a","i","n","t","a","i","n","a","b","l","e"," ","a","r","c",
       "h","i","t","e","c","t","u","r","e",".","\n"," "," "," "," "," ",
       " "," "," "," "," "," "," ","C","o","n","s","i","d","e","r"," ",
       "p","e","r","f","o","r","m","a","n","c","e",","," ","s","e","c",
       "u","r","i","t","y",","," ","a","n","d"," ","e","x","t","e","n",
       "s","i","b","i","l","i","t","y",".","\n"," "," "," "," "," "," ",
       " "," "," "," "," "," ","E","x","p","l","a","i","n"," ","y","o",
       "u","r"," ","a","r","c","h","i","t","e","c","t","u","r","a","l",
       " ","d","e","c","i","s","i","o","n","s",".","\n"," "," "," "," ",
       " "," "," "," "," "," "," "," " >>

DebuggingEnhancer ==
    << "\n"," "," "," "," "," "," "," "," "," "," "," "," ","A","n","a",
       "l","y","z","e"," ","t","h","e"," ","p","r","o","b","l","e","m",
       " ","s","y","s","t","e","m","a","t","i","c","a","l","l","y",".",
       "\n"," "," "," "," "," "," "," "," "," "," "," "," ","P","r","o",
       "v","i","d","e"," ","c","l","e","a","r"," ","e","x","p","l","a",
       "n","a","t","i","o","n","s"," ","o","f"," ","t","h","e"," ","r",
       "o","o","t"," ","c","a","u","s","e",".","\n"," "," "," "," "," ",
       " "," "," "," "," "," "," ","O","f","f","e","r"," ","m","u","l",
       "t","i","p","l","e"," ","s","o","l","u","t","i","o","n","s"," ",
       "w","h","e","n"," ","a","p","p","l","i","c","a","b","l","e",".",
       "\n"," "," "," "," "," "," "," "," "," "," "," "," " >>

PlanningEnhancer ==
    << "\n"," "," "," "," "," "," "," "," "," "," "," "," ","B","r","e",
       "a","k"," ","d","o","w","n"," ","t","h","e"," ","t","a","s","k",
       " ","i","n","t","o"," ","c","l","e","a","r",","," ","a","c","t",
       "i","o","n","a","b","l","e"," ","s","t","e","p","s",".","\n"," ",
       " "," "," "," "," "," "," "," "," "," "," ","C","o","n","s","i",
       "d","e","r"," ","d","e","p","e","n","d","e","n","c","i","e","s",
       " ","a","n","d"," ","p","o","t","e","n","t","i","a","l"," ","c",
       "h","a","l","l","e","n","g","e","s",".","\n"," "," "," "," "," ",
       " "," "," "," "," "," "," ","P","r","o","v","i","d","e"," ","a",
       " ","r","e","a","l","i","s","t","i","c"," ","i","m","p","l","e",
       "m","e","n","t","a","t","i","o","n"," ","r","o","a","d","m","a",
       "p",".","\n"," "," "," "," "," "," "," "," "," "," "," "," " >>

\* the enhancers dictionary
enhancers ==
    [ t \in {CREATIVE_UI, CODE_GENERATION, ARCHITECTURE, DEBUGGING, PLANNING} |->
        CASE t = CREATIVE_UI     -> CreativeUiEnhancer
          [] t = CODE_GENERATION -> CodeGenerationEnhancer
          [] t = ARCHITECTURE    -> ArchitectureEnhancer
          [] t = DEBUGGING       -> DebuggingEnhancer
          [] t = PLANNING        -> PlanningEnhancer ]

\* enhancers.get(task_type, "")
GetEnhancer(t) == IF t \in DOMAIN enhancers THEN enhancers[t] ELSE <<>>

\* _enhance_prompt: f"{prompt}\n\n{enhancer}"
enhance_prompt(p, t) == p \o <<"\n", "\n">> \o GetEnhancer(t)

NotEnhanced == <<"not called">>

\* a caller enhances a prompt for a task type
Enhance(p, t) ==
    /\ e_output = NotEnhanced
    /\ e_prompt' = p
    /\ e_type' = t
    /\ e_output' = enhance_prompt(p, t)
    /\ UNCHANGED <<routeVars, clsVars, qVars, gVars, coVars, engineVars, ultimateVars, limitVars, wsVars>>

\* ---------------------------------------------------------------- generate calls

NotGenerated == [called |-> FALSE]

\* what the remote call of an adapter can do, over the texts of QualityTexts
GenerateRemotes(adapter) ==
    [raises : {FALSE}, text : QualityTexts]
    \cup { r \in Remotes(adapter) : r.raises \/ r.text.none }

\* a caller awaits <Client>.generate(prompt)
Generate(adapter, remote) ==
    /\ g_output = NotGenerated
    /\ g_adapter' = adapter
    /\ g_remote' = remote
    /\ g_output' = generate(adapter, unconfigured, remote, 1)
    /\ UNCHANGED <<routeVars, clsVars, qVars, eVars, coVars, engineVars, ultimateVars, limitVars, wsVars>>

\* ---------------------------------------------------------------- concurrent routes

\* the route_task calls in progress on the one SmartRouter of the API module
Routes == {1, 2}

\* max_attempts of these calls: 2 (the default, and what the API routes pass) and 1
ConcurrentAttempts == {1, 2}

\* their task_type arguments
ConcurrentTypes == {None, "architecture"}

\* what the remote calls do: raise, no text, a text scored 0.6, a text scored 0.7
ConcurrentRemotes(adapter) ==
    IF adapter \in unconfigured
    THEN {[raises |-> FALSE, text |-> NoneText]}
    ELSE { r \in Remotes(adapter) :
             \/ r.raises
             \/ r.text.none
             \/ r.text \in {Text(40, FALSE, TRUE), Text(150, FALSE, FALSE)} }

\* the locals kept in one place for all calls (as attributes of self)
SharedScope(r) == 1

\* task_type, preferred_models, last_error, attempt, model_name and result are
\* local variables of route_task: each call has its own
Scope(r) == r

NoLocals ==
    [task_type |-> None, preferred_models |-> <<>>, attempt |-> 0, idx |-> 1,
     last_error |-> NoError]

Idle ==
    [pc |-> "idle", prompt |-> <<>>, task_type_arg |-> None, max_attempts |-> 1,
     callee |-> None, issued |-> 0, pending |-> NoReply, outcome |-> NoOutcome,
     own |-> NoLocals, expected |-> NoOutcome]

\* where the loops stand after Seek, as a suspension or a return
Position(L, s, n) ==
    [locals |-> [L EXCEPT !.attempt = s.attempt, !.idx = s.idx,
                          !.last_error = s.last_error],
     pc |-> IF s.act = "call" THEN "await" ELSE "done",
     callee |-> IF s.act = "call" THEN L.preferred_models[s.idx] ELSE None,
     outcome |-> IF s.act = "call" THEN NoOutcome
                 ELSE FailureOutcome(s.last_error, L.task_type, n)]

\* route_task from its entry to its first suspension or return
Enter(p, t, n) ==
    LET tt == ResolveTaskType(t, p).value
        L == [NoLocals EXCEPT !.task_type = tt, !.preferred_models = Preferred(tt)]
    IN  Position(L, Seek(L.preferred_models, n, 0, 1, NoError), n)

\* route_task from the resumption with result to its next suspension or return
Advance(L, n, result) ==
    LET h == Handle(result, L.attempt, n, L.task_type, L.last_error) IN
    CASE h.act = "return" ->
           [locals |-> L, pc |-> "done", callee |-> None, outcome |-> h.value]
      [] h.act = "raise" ->
           [locals |-> L, pc |-> "done", callee |-> None,
            outcome |-> Escaped(h.last_error)]
      [] h.act = "continue" ->
           Position(L, Seek(L.preferred_models, n, L.attempt, L.idx + 1,
                            h.last_error), n)

\* a request handler calls smart_router.route_task(prompt, task_type, max_attempts)
ConcurrentRouteTask(r, p, t, n) ==
    /\ co[r].pc = "idle"
    /\ LET e == Enter(p, t, n) IN
       /\ locals' = [locals EXCEPT ![Scope(r)] = e.locals]
       /\ co' = [co EXCEPT ![r] =
                   [pc |-> e.pc, prompt |-> p, task_type_arg |-> t,
                    max_attempts |-> n, callee |-> e.callee,
                    issued |-> IF e.pc = "await" THEN 1 ELSE 0,
                    pending |-> NoReply, outcome |-> e.outcome,
                    own |-> e.locals, expected |-> e.outcome]]
    /\ UNCHANGED <<routeVars, clsVars, qVars, eVars, gVars, engineVars, ultimateVars, limitVars, wsVars>>

\* the adapter call route r awaits completes
ConcurrentComplete(r) ==
    /\ co[r].pc = "await"
    /\ \E remote \in ConcurrentRemotes(co[r].callee) :
          co' = [co EXCEPT ![r].pc = "ready",
                           ![r].pending = generate(co[r].callee, unconfigured,
                                                   remote, co[r].issued)]
    /\ UNCHANGED <<locals, routeVars, clsVars, qVars, eVars, gVars, engineVars, ultimateVars, limitVars, wsVars>>

\* the event loop resumes route r with the result of its call
ConcurrentResume(r) ==
    /\ co[r].pc = "ready"
    /\ LET n == co[r].max_attempts
           a == Advance(locals[Scope(r)], n, co[r].pending)
           g == Advance(co[r].own, n, co[r].pending)
       IN
       /\ locals' = [locals EXCEPT ![Scope(r)] = a.locals]
       /\ co' = [co EXCEPT ![r].pc = a.pc,
                           ![r].callee = a.callee,
                           ![r].issued = IF a.pc = "await" THEN @ + 1 ELSE @,
                           ![r].pending = NoReply,
                           ![r].outcome = a.outcome,
                           ![r].own = g.locals,
                           ![r].expected = g.outcome]
    /\ UNCHANGED <<routeVars, clsVars, qVars, eVars, gVars, engineVars, ultimateVars, limitVars, wsVars>>

\* ---------------------------------------------------------------- MultiAIEngine

\* the order in which _init_clients inserts into self.clients
ClientOrder == <<"groq", "gemini", "claude", "openai">>

\* values of PRIMARY_AI and FALLBACK_AI: the four providers, or another name
EnvNames == {"groq", "gemini", "claude", "openai", "other"}

\* task_type arguments of generate: the keys of task_routing, or another one
EngineTaskTypes == {"code", "review", "architecture", "planning", "general", "other"}

\* the providers whose SDK and API key are present
KeySets == SUBSET {"groq", "gemini", "claude", "openai"}

\* _init_clients: the paid clients are created only outside budget mode
init_clients(keys, budget_mode) ==
    IF budget_mode THEN keys \cap {"groq", "gemini"} ELSE keys

\* list(self.clients.keys())
ClientKeys(clients) == SelectSeq(ClientOrder, LAMBDA c : c \in clients)

task_routing ==
    [code |-> "groq", review |-> "gemini", architecture |-> "claude",
     planning |-> "claude", general |-> "groq"]

\* MultiAIEngine._choose_provider
choose_provider(t, clients, primary_ai, budget_mode) ==
    IF budget_mode
    THEN IF "groq" \in clients THEN "groq"
         ELSE IF "gemini" \in clients THEN "gemini"
         ELSE ClientKeys(clients)[1]
    ELSE LET preferred == IF t \in DOMAIN task_routing
                          THEN task_routing[t] ELSE primary_ai
         IN  IF preferred \in clients THEN preferred
             ELSE IF primary_ai \in clients THEN primary_ai
             ELSE ClientKeys(clients)[1]

\* "if backup_provider != provider" in place of
\* "if backup_provider not in [provider, self.fallback_ai]"
BackupsSkippingOnlyProvider(clients, provider, fallback_ai) ==
    SelectSeq(ClientKeys(clients), LAMBDA b : b # provider)

\* the last-resort loop: "for backup_provider in self.clients.keys(): if
\* backup_provider not in [provider, self.fallback_ai]"
Backups(clients, provider, fallback_ai) ==
    SelectSeq(ClientKeys(clients), LAMBDA b : b \notin {provider, fallback_ai})

\* the calls generate makes as long as each one raises: the chosen provider,
\* the fallback ("if provider != self.fallback_ai and self.fallback_ai in
\* self.clients"), then the last-resort loop
CallPlan(clients, provider, fallback_ai) ==
    <<provider>>
    \o (IF provider # fallback_ai /\ fallback_ai \in clients
        THEN <<fallback_ai>> ELSE <<>>)
    \o Backups(clients, provider, fallback_ai)

Response(provider) == <<"response", provider>>

AllProvidersFailed == <<"All AI providers failed", "">>

NoEngine ==
    [pc |-> "new", clients |-> {}, primary_ai |-> "groq", fallback_ai |-> "gemini",
     budget_mode |-> TRUE, task_type |-> "general", provider |-> "", step |-> 0,
     tried |-> <<>>, raisedBy |-> {}, result |-> <<"", "">>]

\* MultiAIEngine(): __init__ reads the environment and raises ValueError when
\* no client could be created
MultiAIEngine(keys, primary, fallback, budget) ==
    /\ mai.pc = "new"
    /\ mai' = [NoEngine EXCEPT
                 !.pc = IF init_clients(keys, budget) = {} THEN "no providers"
                        ELSE "constructed",
                 !.clients = init_clients(keys, budget),
                 !.primary_ai = primary,
                 !.fallback_ai = fallback,
                 !.budget_mode = budget]
    /\ UNCHANGED <<routeVars, clsVars, qVars, eVars, gVars, coVars, ultimateVars, limitVars, wsVars>>

\* generate(prompt, system_prompt, task_type) up to its first _call_ai
EngineGenerate(t) ==
    /\ mai.pc = "constructed"
    /\ mai' = [mai EXCEPT
                 !.pc = "calling",
                 !.task_type = t,
                 !.provider = choose_provider(t, mai.clients, mai.primary_ai,
                                              mai.budget_mode),
                 !.step = 1]
    /\ UNCHANGED <<routeVars, clsVars, qVars, eVars, gVars, coVars, ultimateVars, limitVars, wsVars>>

\* the provider generate is calling
Target == CallPlan(mai.clients, mai.provider, mai.fallback_ai)[mai.step]

\* the _call_ai in progress returns: generate returns its response
CallReturns ==
    /\ mai.pc = "calling"
    /\ mai' = [mai EXCEPT !.pc = "returned",
                          !.tried = Append(@, Target),
                          !.result = Response(Target)]
    /\ UNCHANGED <<routeVars, clsVars, qVars, eVars, gVars, coVars, ultimateVars, limitVars, wsVars>>

\* the _call_ai in progress raises: generate goes on to its next call, or
\* raises after the last-resort loop
CallRaises ==
    /\ mai.pc = "calling"
    /\ LET last == mai.step = Len(CallPlan(mai.clients, mai.provider, mai.fallback_ai)) IN
       mai' = [mai EXCEPT !.pc = IF last THEN "raised" ELSE "calling",
                          !.step = IF last THEN @ ELSE @ + 1,
                          !.tried = Append(@, Target),
                          !.raisedBy = @ \cup {Target},
                          !.result = IF last THEN AllProvidersFailed ELSE @]
    /\ UNCHANGED <<routeVars, clsVars, qVars, eVars, gVars, coVars, ultimateVars, limitVars, wsVars>>

\* ---------------------------------------------------------------- UltimateAI

FreeOrder == <<"groq", "gemini">>

WebOrder == <<"claude_web", "chatgpt_web">>

UltimateTaskTypes ==
    {"code", "general", "review", "architecture", "planning", "complex_code", "other"}

NoProvider == "no provider"

\* list(self.free_clients.keys()) + list(self.web_clients.keys())
AllProviders(free_clients, web_clients) ==
    SelectSeq(FreeOrder, LAMBDA c : c \in free_clients)
    \o SelectSeq(WebOrder, LAMBDA c : c \in web_clients)

\* UltimateAI._choose_provider; NoProvider stands for its raise
ultimate_choose_provider(t, free_clients, web_clients, prefer_free) ==
    IF t \in {"code", "general", "review"} /\ prefer_free /\ "groq" \in free_clients
    THEN "groq"
    ELSE IF t \in {"code", "general", "review"} /\ prefer_free /\ "gemini" \in free_clients
    THEN "gemini"
    ELSE IF t \in {"architecture", "planning", "complex_code"} /\ "claude_web" \in web_clients
    THEN "claude_web"
    ELSE IF t \in {"architecture", "planning", "complex_code"} /\ "chatgpt_web" \in web_clients
    THEN "chatgpt_web"
    ELSE IF AllProviders(free_clients, web_clients) # <<>>
    THEN AllProviders(free_clients, web_clients)[1]
    ELSE NoProvider

\* UltimateAI._get_fallback
get_fallback(failed_provider, free_clients, web_clients) ==
    LET all_providers == SelectSeq(AllProviders(free_clients, web_clients),
                                   LAMBDA q : q # failed_provider)
    IN  IF all_providers # <<>> THEN all_providers[1] ELSE None

NoProvidersAvailable == <<"No AI providers available", "">>

RecursionError == <<"maximum recursion depth exceeded", "">>

NoUltimate ==
    [pc |-> "new", free_clients |-> {}, web_clients |-> {}, prefer_free |-> TRUE,
     task_type |-> "general", provider |-> NoProvider, depth |-> 0,
     tried |-> <<>>, failed |-> 0, free_calls |-> 0, web_calls |-> 0,
     result |-> <<"", "">>]

\* UltimateAI(): __init__ and _init_all_clients
UltimateAI(free, web, prefer) ==
    /\ ult.pc = "new"
    /\ ult' = [NoUltimate EXCEPT !.pc = "constructed", !.free_clients = free,
                                 !.web_clients = web, !.prefer_free = prefer]
    /\ UNCHANGED <<routeVars, clsVars, qVars, eVars, gVars, coVars, engineVars, limitVars, wsVars>>

\* A frame of generate from its entry to its provider call: _choose_provider
\* runs outside the try statement, so its exception leaves generate; a frame
\* beyond the interpreter's limit is not entered and RecursionError passes
\* through the except blocks of all the frames below it.
EnterGenerate(u, t, d) ==
    LET provider == ultimate_choose_provider(t, u.free_clients, u.web_clients,
                                             u.prefer_free)
    IN  IF d > RecursionLimit
        THEN [u EXCEPT !.pc = "raised", !.result = RecursionError]
        ELSE IF provider = NoProvider
        THEN [u EXCEPT !.pc = "raised", !.depth = d, !.task_type = t,
                       !.result = NoProvidersAvailable]
        ELSE [u EXCEPT !.pc = "calling", !.depth = d, !.task_type = t,
                       !.provider = provider]

\* a caller calls generate(prompt, system_prompt, task_type)
UltimateGenerate(t) ==
    /\ ult.pc = "constructed"
    /\ ult' = EnterGenerate(ult, t, 1)
    /\ UNCHANGED <<routeVars, clsVars, qVars, eVars, gVars, coVars, engineVars, limitVars, wsVars>>

\* the provider call returns: generate returns {"text", "provider", "cost"}
ProviderReturns ==
    /\ ult.pc = "calling"
    /\ ult' = [ult EXCEPT
                 !.pc = "returned",
                 !.tried = Append(@, ult.provider),
                 !.free_calls = IF ult.provider \in ult.free_clients THEN @ + 1 ELSE @,
                 !.web_calls = IF ult.provider \in ult.free_clients THEN @ ELSE @ + 1,
                 !.result = Response(ult.provider)]
    /\ UNCHANGED <<routeVars, clsVars, qVars, eVars, gVars, coVars, engineVars, limitVars, wsVars>>

\* the provider call raises: "fallback = self._get_fallback(provider); if
\* fallback: return self.generate(prompt, system_prompt, task_type)", else
\* raise Exception("All AI providers failed")
ProviderRaises ==
    /\ ult.pc = "calling"
    /\ LET u == [ult EXCEPT !.tried = Append(@, ult.provider), !.failed = @ + 1] IN
       ult' = IF get_fallback(ult.provider, ult.free_clients, ult.web_clients) # None
              THEN EnterGenerate(u, ult.task_type, ult.depth + 1)
              ELSE [u EXCEPT !.pc = "raised", !.result = AllProvidersFailed]
    /\ UNCHANGED <<routeVars, clsVars, qVars, eVars, gVars, coVars, engineVars, limitVars, wsVars>>

\* ---------------------------------------------------------------- verify_api_key

\* verify_api_key is a plain function used as a dependency: the framework runs
\* it in worker threads, so calls for one key run concurrently
Workers == {1, 2}

\* rate_limit of the key: a positive number of requests per hour
RateLimits == {1, 2}

NoKey == [rate_limit |-> 0, usage_count |-> 0, last_reset |-> 0, created |-> FALSE]

Resting == [pc |-> "idle", current_hour |-> 0, loaded |-> 0]

\* create_api_key stores the key with usage_count 0 and last_reset the current hour
CreateApiKey(limit) ==
    /\ ~key_data.created
    /\ key_data' = [rate_limit |-> limit, usage_count |-> 0, last_reset |-> clock,
                    created |-> TRUE]
    /\ UNCHANGED <<verifiers, clock, admitted>>
    /\ UNCHANGED <<routeVars, clsVars, qVars, eVars, gVars, coVars, engineVars, ultimateVars, wsVars>>

RequestsStarted ==
    admitted.started

\* verify_api_key up to "current_hour = datetime.utcnow().replace(...)": the
\* key is present and not expired
VerifyBegins(w) ==
    /\ key_data.created
    /\ verifiers[w].pc = "idle"
    /\ RequestsStarted < MaxRequests
    /\ verifiers' = [verifiers EXCEPT ![w] = [pc |-> "reset check",
                                               current_hour |-> clock, loaded |-> 0]]
    /\ admitted' = [admitted EXCEPT !.started = @ + 1]
    /\ UNCHANGED <<key_data, clock>>
    /\ UNCHANGED <<routeVars, clsVars, qVars, eVars, gVars, coVars, engineVars, ultimateVars, wsVars>>

\* "if key_data["last_reset"] < current_hour:"
ResetCheck(w) ==
    /\ verifiers[w].pc = "reset check"
    /\ verifiers' = [verifiers EXCEPT ![w].pc =
                        IF key_data.last_reset < verifiers[w].current_hour
                        THEN "reset count" ELSE "limit check"]
    /\ UNCHANGED <<key_data, clock, admitted>>
    /\ UNCHANGED <<routeVars, clsVars, qVars, eVars, gVars, coVars, engineVars, ultimateVars, wsVars>>

\* "key_data["usage_count"] = 0"
ResetCount(w) ==
    /\ verifiers[w].pc = "reset count"
    /\ key_data' = [key_data EXCEPT !.usage_count = 0]
    /\ verifiers' = [verifiers EXCEPT ![w].pc = "reset stamp"]
    /\ UNCHANGED <<clock, admitted>>
    /\ UNCHANGED <<routeVars, clsVars, qVars, eVars, gVars, coVars, engineVars, ultimateVars, wsVars>>

\* "key_data["last_reset"] = current_hour"
ResetStamp(w) ==
    /\ verifiers[w].pc = "reset stamp"
    /\ key_data' = [key_data EXCEPT !.last_reset = verifiers[w].current_hour]
    /\ verifiers' = [verifiers EXCEPT ![w].pc = "limit check"]
    /\ UNCHANGED <<clock, admitted>>
    /\ UNCHANGED <<routeVars, clsVars, qVars, eVars, gVars, coVars, engineVars, ultimateVars, wsVars>>

\* "if key_data["rate_limit"] and key_data["usage_count"] >= key_data["rate_limit"]:
\* raise HTTPException(status_code=429, ...)"
LimitCheck(w) ==
    /\ verifiers[w].pc = "limit check"
    /\ verifiers' = [verifiers EXCEPT ![w].pc =
                        IF key_data.rate_limit # 0
                           /\ key_data.usage_count >= key_data.rate_limit
                        THEN "idle" ELSE "load"]
    /\ UNCHANGED <<key_data, clock, admitted>>
    /\ UNCHANGED <<routeVars, clsVars, qVars, eVars, gVars, coVars, engineVars, ultimateVars, wsVars>>

\* "key_data["usage_count"] += 1", the read of the counter
LoadCount(w) ==
    /\ verifiers[w].pc = "load"
    /\ verifiers' = [verifiers EXCEPT ![w].pc = "store",
                                      ![w].loaded = key_data.usage_count]
    /\ UNCHANGED <<key_data, clock, admitted>>
    /\ UNCHANGED <<routeVars, clsVars, qVars, eVars, gVars, coVars, engineVars, ultimateVars, wsVars>>

\* "key_data["usage_count"] += 1", the write of the counter; the function then
\* returns key_data and the request is served
StoreCount(w) ==
    /\ verifiers[w].pc = "store"
    /\ key_data' = [key_data EXCEPT !.usage_count = verifiers[w].loaded + 1]
    /\ verifiers' = [verifiers EXCEPT ![w] = Resting]
    /\ admitted' = [admitted EXCEPT !.hours[clock] = @ + 1]
    /\ UNCHANGED clock
    /\ UNCHANGED <<routeVars, clsVars, qVars, eVars, gVars, coVars, engineVars, ultimateVars, wsVars>>

\* the clock passes into the next hour
Tick ==
    /\ clock < MaxHours
    /\ clock' = clock + 1
    /\ UNCHANGED <<key_data, verifiers, admitted>>
    /\ UNCHANGED <<routeVars, clsVars, qVars, eVars, gVars, coVars, engineVars, ultimateVars, wsVars>>

\* ---------------------------------------------------------------- WebSocket broadcast

\* the WebSocket clients of the exploration
Connections == {"a", "b", "c"}

\* list.remove(x) on a list that holds x once
Remove(list, x) == SelectSeq(list, LAMBDA y : y # x)

Members(list) == { list[k] : k \in 1..Len(list) }

NoBroadcast ==
    [pc |-> "idle", pos |-> 0, target |-> None, disconnected |-> <<>>,
     delivered |-> {}, failed |-> {}, steady |-> {}]

\* the connections that have been in the list since the broadcast began
Steady(list) ==
    IF broadcast.pc = "sending" THEN broadcast.steady \cap Members(list)
    ELSE broadcast.steady

\* websocket_endpoint: "await websocket.accept();
\* active_connections.append(websocket)"
Connect(c) ==
    /\ sockets[c] = "new"
    /\ sockets' = [sockets EXCEPT ![c] = "open"]
    /\ active_connections' = Append(active_connections, c)
    /\ broadcast' = [broadcast EXCEPT !.steady = Steady(active_connections')]
    /\ UNCHANGED <<routeVars, clsVars, qVars, eVars, gVars, coVars, engineVars, ultimateVars, limitVars>>

\* the client closes its connection
Close(c) ==
    /\ sockets[c] = "open"
    /\ sockets' = [sockets EXCEPT ![c] = "closed"]
    /\ UNCHANGED <<active_connections, broadcast>>
    /\ UNCHANGED <<routeVars, clsVars, qVars, eVars, gVars, coVars, engineVars, ultimateVars, limitVars>>

\* websocket_endpoint: receive_text raises WebSocketDisconnect and the handler
\* runs active_connections.remove(websocket) (a ValueError, which ends the
\* endpoint too, when broadcast_update has removed it already)
EndpointDisconnects(c) ==
    /\ sockets[c] = "closed"
    /\ sockets' = [sockets EXCEPT ![c] = "ended"]
    /\ active_connections' = Remove(active_connections, c)
    /\ broadcast' = [broadcast EXCEPT !.steady = Steady(active_connections')]
    /\ UNCHANGED <<routeVars, clsVars, qVars, eVars, gVars, coVars, engineVars, ultimateVars, limitVars>>

RECURSIVE RemoveAll(_, _)
\* "for conn in disconnected: if conn in active_connections:
\* active_connections.remove(conn)"
RemoveAll(list, disconnected) ==
    IF disconnected = <<>> THEN list
    ELSE RemoveAll(Remove(list, Head(disconnected)), Tail(disconnected))

\* "for connection in active_connections": the list iterator returns the
\* element at its index in the list as it is now, or ends the loop
NextOfIterator(b, list) ==
    IF b.pos < Len(list) THEN list[b.pos + 1] ELSE None

\* broadcast_update from the loop's next iteration to its next await, or
\* through the removal loop to its return
Iterate(b) ==
    LET connection == NextOfIterator(b, active_connections) IN
    IF connection # None
    THEN /\ broadcast' = [b EXCEPT !.pc = "sending", !.pos = @ + 1,
                                   !.target = connection]
         /\ active_connections' = active_connections
    ELSE /\ broadcast' = [b EXCEPT !.pc = "done", !.target = None]
         /\ active_connections' = RemoveAll(active_connections, b.disconnected)

\* a caller awaits broadcast_update(message)
BroadcastUpdate ==
    /\ broadcast.pc \in {"idle", "done"}
    /\ Iterate([NoBroadcast EXCEPT !.steady = Members(active_connections)])
    /\ UNCHANGED sockets
    /\ UNCHANGED <<routeVars, clsVars, qVars, eVars, gVars, coVars, engineVars, ultimateVars, limitVars>>

\* "await connection.send_text(message_str)" returns
SendReturns ==
    /\ broadcast.pc = "sending"
    /\ sockets[broadcast.target] = "open"
    /\ Iterate([broadcast EXCEPT !.delivered = @ \cup {broadcast.target}])
    /\ UNCHANGED sockets
    /\ UNCHANGED <<routeVars, clsVars, qVars, eVars, gVars, coVars, engineVars, ultimateVars, limitVars>>

\* "await connection.send_text(message_str)" raises:
\* "except: disconnected.append(connection)"
SendRaises ==
    /\ broadcast.pc = "sending"
    /\ Iterate([broadcast EXCEPT !.disconnected = Append(@, broadcast.target),
                                 !.failed = @ \cup {broadcast.target}])
    /\ UNCHANGED sockets
    /\ UNCHANGED <<routeVars, clsVars, qVars, eVars, gVars, coVars, engineVars, ultimateVars, limitVars>>

\* ---------------------------------------------------------------- specifications

InitRoute ==
    /\ pc = "idle"
    /\ prompt = <<>>
    /\ task_type_arg = None
    /\ max_attempts = 1
    /\ task_type = None
    /\ preferred_models = <<>>
    /\ attempt = 0
    /\ idx = 1
    /\ last_error = NoError
    /\ reply = NoReply
    /\ outcome = NoOutcome
    /\ calls = <<>>
    /\ best = "none"
    /\ roundScores = <<>>
    /\ lastFail = NoError
    /\ classified = FALSE
    /\ inflight = {}

InitClassify ==
    /\ cls_prompt = <<>>
    /\ cls_result = NotCalled
    /\ cls_prev = NotCalled

InitQuality ==
    /\ q_input = NoReply
    /\ q_output = NotScored

InitEnhance ==
    /\ e_prompt = <<>>
    /\ e_type = None
    /\ e_output = NotEnhanced

InitGenerate ==
    /\ g_adapter = None
    /\ g_remote = [raises |-> FALSE, text |-> NoneText]
    /\ g_output = NotGenerated

InitConcurrent ==
    /\ co = [r \in Routes |-> Idle]
    /\ locals = [r \in Routes |-> NoLocals]

InitEngine == mai = NoEngine

InitUltimate == ult = NoUltimate

InitLimit ==
    /\ key_data = NoKey
    /\ verifiers = [w \in Workers |-> Resting]
    /\ clock = 0
    /\ admitted = [started |-> 0, hours |-> [h \in 0..MaxHours |-> 0]]

InitBroadcast ==
    /\ active_connections = <<>>
    /\ sockets = [c \in Connections |-> "new"]
    /\ broadcast = NoBroadcast

Init ==
    /\ InitRoute
    /\ InitClassify
    /\ InitQuality
    /\ InitEnhance
    /\ InitGenerate
    /\ InitConcurrent
    /\ InitEngine
    /\ InitUltimate
    /\ InitLimit
    /\ InitBroadcast
    /\ unconfigured \in SUBSET {"gemini", "groq"}

Next ==
    \/ \E p \in RoutePrompts, t \in TaskType \cup {None}, n \in 1..MaxAttempts :
          RouteTask(p, t, n)
    \/ AdapterUnavailable
    \/ AdapterCompletes
    \/ Resume

Spec == Init /\ [][Next]_vars

\* Every awaited adapter call eventually returns or raises, and the event loop
\* eventually resumes a coroutine whose awaited call has completed.
SpecLive ==
    /\ Init
    /\ [][Next]_vars
    /\ WF_vars(AdapterUnavailable)
    /\ WF_vars(AdapterCompletes)
    /\ WF_vars(Resume)

NextClassify ==
    \/ \E p \in Prompts : Classify(p)
    \/ ClassifyAgain

SpecClassify == Init /\ [][NextClassify]_vars

NextQuality == \E result \in QualityInputs : Score(result)

SpecQuality == Init /\ [][NextQuality]_vars

\* route_task is given non-empty prompts
NextEnhance == \E p \in Prompts \ {<<>>}, t \in TaskType : Enhance(p, t)

SpecEnhance == Init /\ [][NextEnhance]_vars

NextGenerate ==
    \E adapter \in Adapters : \E remote \in GenerateRemotes(adapter) :
        Generate(adapter, remote)

SpecGenerate == Init /\ [][NextGenerate]_vars

NextConcurrent ==
    \E r \in Routes :
        \/ \E p \in RoutePrompts, t \in ConcurrentTypes, n \in ConcurrentAttempts :
              ConcurrentRouteTask(r, p, t, n)
        \/ ConcurrentComplete(r)
        \/ ConcurrentResume(r)

SpecConcurrent == Init /\ [][NextConcurrent]_vars

NextEngine ==
    \/ \E keys \in KeySets, primary \in EnvNames, fallback \in EnvNames,
          budget \in BOOLEAN :
          MultiAIEngine(keys, primary, fallback, budget)
    \/ \E t \in EngineTaskTypes : EngineGenerate(t)
    \/ CallReturns
    \/ CallRaises

SpecEngine == Init /\ [][NextEngine]_vars

NextUltimate ==
    \/ \E free \in SUBSET {"groq", "gemini"},
          web \in SUBSET {"claude_web", "chatgpt_web"}, prefer \in BOOLEAN :
          UltimateAI(free, web, prefer)
    \/ \E t \in UltimateTaskTypes : UltimateGenerate(t)
    \/ ProviderReturns
    \/ ProviderRaises

SpecUltimate == Init /\ [][NextUltimate]_vars

NextLimit ==
    \/ \E limit \in RateLimits : CreateApiKey(limit)
    \/ \E w \in Workers :
          \/ VerifyBegins(w)
          \/ ResetCheck(w)
          \/ ResetCount(w)
          \/ ResetStamp(w)
          \/ LimitCheck(w)
          \/ LoadCount(w)
          \/ StoreCount(w)
    \/ Tick

SpecLimit == Init /\ [][NextLimit]_vars

NextBroadcast ==
    \/ \E c \in Connections :
          \/ Connect(c)
          \/ Close(c)
          \/ EndpointDisconnects(c)
    \/ BroadcastUpdate
    \/ SendReturns
    \/ SendRaises

SpecBroadcast == Init /\ [][NextBroadcast]_vars

\* ---------------------------------------------------------------- properties

IsSuccess(o) == "success" \in DOMAIN o /\ o.success
IsFailure(o) == "success" \in DOMAIN o /\ ~o.success

RECURSIVE Repeat(_, _)
\* list * n
Repeat(list, n) == IF n <= 0 THEN <<>> ELSE list \o Repeat(list, n - 1)

IsPrefix(s, t) == Len(s) <= Len(t) /\ SubSeq(t, 1, Len(s)) = s

\* the awaited result is a success that quality_check scores
Scored(r) == r.success /\ ~quality_check(r).raised

\* the calls made when the call at (attempt, idx) is the latest one
CallsUpTo(a, i) == Repeat(preferred_models, a) \o SubSeq(preferred_models, 1, i)

\* C1: when an adapter call returns a success whose quality score is >= 0.7,
\* route_task's next step returns exactly that result as a success outcome and
\* makes no further adapter call (later providers and later rounds are skipped).
C1_ShortCircuit ==
    [][ (pc = "ready" /\ Scored(reply)
            /\ quality_check(reply).score >= QualityThreshold)
        => /\ pc' = "done"
           /\ IsSuccess(outcome')
           /\ outcome'.content = reply.content
           /\ outcome'.model = reply.model
           /\ outcome'.quality_score = quality_check(reply).score
           /\ calls' = calls ]_vars

\* C1 witness: the first provider of a longer list scored >= 0.7 in a round
\* with attempts left, and route_task returned after that single call.
C1_Witness ==
    /\ pc = "done"
    /\ IsSuccess(outcome)
    /\ outcome.quality_score >= QualityThreshold
    /\ Len(calls) = 1
    /\ Len(preferred_models) >= 2
    /\ max_attempts >= 2

\* C2: when every adapter call of a route call fails, route_task has made
\* exactly max_attempts * k calls, the provider list repeated max_attempts
\* times in order, when it returns, and what it returns is a failure outcome;
\* a failure outcome is returned only after all those calls.
C2_ExhaustAll ==
    (pc = "done" /\ (best = "none" \/ IsFailure(outcome)))
        => /\ IsFailure(outcome)
           /\ calls = Repeat(preferred_models, max_attempts)

\* C2 witness: two providers, two attempts, four failed calls, failure returned.
C2_Witness ==
    /\ pc = "done"
    /\ best = "none"
    /\ IsFailure(outcome)
    /\ max_attempts = 2
    /\ Len(preferred_models) = 2
    /\ Len(calls) = 4

\* C3 (as claimed): route_task returns success = false only when no adapter call
\* of the route call produced a successful, scored result.
C3_FailureOnlyIfAllFailed ==
    (pc = "done" /\ IsFailure(outcome)) => best # "scored"

\* C4: in the last attempt round a successful result scoring below 0.7 is
\* returned as a success outcome that carries that score.
C4_BestEffort ==
    [][ (pc = "ready" /\ Scored(reply)
            /\ quality_check(reply).score < QualityThreshold
            /\ attempt = max_attempts - 1)
        => /\ pc' = "done"
           /\ IsSuccess(outcome')
           /\ outcome'.content = reply.content
           /\ outcome'.quality_score = quality_check(reply).score ]_vars

\* C4 witness: a success outcome with a score below 0.7 was returned.
C4_Witness ==
    /\ pc = "done"
    /\ IsSuccess(outcome)
    /\ outcome.quality_score < QualityThreshold
    /\ max_attempts = 1

\* C5 (as claimed): a success outcome scoring below 0.7 is the best of the final
\* round: every provider was called in the final round and no success of that
\* round scored higher.
C5_BestOfFinalRound ==
    (pc = "done" /\ IsSuccess(outcome)
        /\ outcome.quality_score < QualityThreshold)
        => /\ calls = Repeat(preferred_models, max_attempts)
           /\ \A i \in 1..Len(roundScores) : roundScores[i] <= outcome.quality_score

\* C5 (amended): a success outcome scoring below 0.7 is the first successful
\* result of the final round: it comes from the last attempt, it is the only
\* scored success of that round, it is the latest result received, and the
\* providers after it in the list were not called in that round.
C5_FirstOfFinalRound ==
    (pc = "done" /\ IsSuccess(outcome)
        /\ outcome.quality_score < QualityThreshold)
        => /\ attempt = max_attempts - 1
           /\ outcome.attempts = max_attempts
           /\ roundScores = <<outcome.quality_score>>
           /\ outcome.content = reply.content
           /\ outcome.model = reply.model
           /\ calls = CallsUpTo(attempt, idx)

\* C5 witness: a low-quality success was returned in the second round from the
\* first provider of a longer list, the rest of the list not called again.
C5_Witness ==
    /\ pc = "done"
    /\ IsSuccess(outcome)
    /\ outcome.quality_score < QualityThreshold
    /\ max_attempts = 2
    /\ idx = 1
    /\ Len(preferred_models) >= 2
    /\ Len(calls) = Len(preferred_models) + 1

\* C6: with a caller-supplied category, classify_task is not consulted, the
\* calls follow that category's preference list, and every outcome reports
\* that category.
C6_CategoryOverride ==
    (pc # "idle" /\ task_type_arg # None)
        => /\ ~classified
           /\ task_type = task_type_arg
           /\ preferred_models = model_preferences[task_type_arg]
           /\ IsPrefix(calls, Repeat(model_preferences[task_type_arg], max_attempts))
           /\ (pc = "done" => /\ "task_type" \in DOMAIN outcome
                              /\ outcome.task_type = task_type_arg)

\* C6 witness: a route call with category debugging returned for a prompt that
\* classify_task maps to another category.
C6_Witness ==
    /\ pc = "done"
    /\ task_type_arg = DEBUGGING
    /\ classify_task(prompt) # DEBUGGING
    /\ calls # <<>>

\* C7 (as claimed): a success outcome has non-empty content and model; a
\* failure outcome has no content and has an error message.
C7_OutcomeInvariant ==
    pc = "done" =>
        /\ IsSuccess(outcome) =>
              /\ ~outcome.content.none
              /\ outcome.content.len > 0
              /\ outcome.model # ""
        /\ IsFailure(outcome) =>
              /\ "content" \notin DOMAIN outcome
              /\ "error" \in DOMAIN outcome

\* an adapter call that did not produce a scored success
CallFailed(r) == ~Scored(r)

\* the error route_task records for it
CallError(r) == IF ~r.success THEN r.error ELSE TypeErrorText

\* C8: route_task never lets an exception escape, and after a failed adapter
\* call (success = false, or an exception while it is called or scored) it
\* records the error and goes on: it calls the next provider, or, when that
\* was the last call of the last round, returns a failure outcome.
C8_NoCallErrorTerminates ==
    /\ [](pc = "done" => "success" \in DOMAIN outcome)
    /\ [][ (pc = "ready" /\ CallFailed(reply))
           => /\ last_error' = CallError(reply)
              /\ IF calls = Repeat(preferred_models, max_attempts)
                 THEN pc' = "done" /\ IsFailure(outcome') /\ calls' = calls
                 ELSE /\ pc' = "await"
                      /\ calls' = CallsUpTo(attempt', idx')
                      /\ Len(calls') = Len(calls) + 1 ]_vars

\* C8 witness: a result could not be scored, route_task went on, and a later
\* call gave the success it returned.
C8_Witness ==
    /\ pc = "done"
    /\ IsSuccess(outcome)
    /\ last_error = TypeErrorText
    /\ Len(calls) >= 2

\* C9: the error message of a failure outcome embeds the error of the most
\* recent failed adapter call of the route call.
C9_LastErrorEmbedded ==
    (pc = "done" /\ IsFailure(outcome))
        => /\ lastFail # NoError
           /\ outcome.error = <<"All models failed. Last error: ", lastFail>>

\* C9 witness: two providers failing in both rounds; the message carries the
\* error of the second provider's second call (the fourth call).
C9_Witness ==
    /\ pc = "done"
    /\ IsFailure(outcome)
    /\ max_attempts = 2
    /\ Len(calls) = 4
    /\ outcome.error[2] = RemoteError(preferred_models[2], 4)
    /\ last_error # RemoteError(preferred_models[1], 3)

PriorityOrder ==
    << CREATIVE_UI, MODELING_3D, MULTIMODAL, ARCHITECTURE,
       DEBUGGING, PLANNING, REFACTORING, FAST_SIMPLE >>

KeywordsOf(cat) ==
    CASE cat = CREATIVE_UI  -> CreativeUiKeywords
      [] cat = MODELING_3D  -> Modeling3dKeywords
      [] cat = MULTIMODAL   -> MultimodalKeywords
      [] cat = ARCHITECTURE -> ArchitectureKeywords
      [] cat = DEBUGGING    -> DebuggingKeywords
      [] cat = PLANNING     -> PlanningKeywords
      [] cat = REFACTORING  -> RefactoringKeywords
      [] cat = FAST_SIMPLE  -> FastSimpleKeywords

\* the lower-cased prompt contains a keyword of the category
HasKeyword(p, cat) == AnyKeyword(Lower(p), KeywordsOf(cat))

\* the prompt satisfies the category's whole condition
MatchesCategory(p, cat) ==
    /\ HasKeyword(p, cat)
    /\ cat = FAST_SIMPLE => WordCount(p) < FastSimpleWords

\* C11: a classified prompt that matches one or more categories gets the one
\* that comes first in the order creative-ui, 3d-modeling, multimodal,
\* architecture, debugging, planning, refactoring, fast-simple.
C11_PriorityOrder ==
    cls_result # NotCalled =>
        \A i \in 1..Len(PriorityOrder) :
            ( /\ MatchesCategory(cls_prompt, PriorityOrder[i])
              /\ \A j \in 1..(i - 1) : ~MatchesCategory(cls_prompt, PriorityOrder[j]) )
            => cls_result = PriorityOrder[i]

\* C11 witness: "design a debug fix for the UI" has creative/UI and debugging
\* keywords and was classified creative-ui.
C11_Witness ==
    /\ cls_prompt = <<"d","e","s","i","g","n"," ","a"," ","d","e","b","u","g"," ",
                      "f","i","x"," ","f","o","r"," ","t","h","e"," ","U","I">>
    /\ HasKeyword(cls_prompt, DEBUGGING)
    /\ HasKeyword(cls_prompt, CREATIVE_UI)
    /\ cls_result = CREATIVE_UI

\* C12: a classified prompt that contains no keyword of any category is
\* code-generation.
C12_DefaultFallback ==
    ( /\ cls_result # NotCalled
      /\ \A i \in 1..Len(PriorityOrder) : ~HasKeyword(cls_prompt, PriorityOrder[i]) )
    => cls_result = CODE_GENERATION

\* C12 witness: "hello hello" has no keyword and was classified code-generation.
C12_Witness ==
    /\ cls_prompt = <<"h","e","l","l","o"," ","h","e","l","l","o">>
    /\ \A i \in 1..Len(PriorityOrder) : ~HasKeyword(cls_prompt, PriorityOrder[i])
    /\ cls_result = CODE_GENERATION
    /\ cls_prev = NotCalled

\* C13: quality_check returns 0.0 for every result whose success flag is not
\* true, whatever content, error or model it carries.
C13_FailedScoresZero ==
    (q_output # NotScored /\ ~GetSuccess(q_input))
        => q_output = [raised |-> FALSE, score |-> 0]

\* C13 witness: a failed result that carries a text earning every bonus scored 0.
C13_Witness ==
    /\ q_output = [raised |-> FALSE, score |-> 0]
    /\ "success" \in DOMAIN q_input
    /\ ~q_input.success
    /\ "content" \in DOMAIN q_input
    /\ q_input.content = Text(150, TRUE, TRUE)

\* the bonuses of a text, summed in tenths over the reals
ExactTenths(content) ==
    5 + (IF MinGoodLength <= content.len /\ content.len <= MaxGoodLength THEN 2 ELSE 0)
      + (IF content.fence THEN 2 ELSE 0)
      + (IF content.explain THEN 1 ELSE 0)

AllBonuses(content) ==
    /\ MinGoodLength <= content.len /\ content.len <= MaxGoodLength
    /\ content.fence
    /\ content.explain

NoSuffixTypes == {FAST_SIMPLE, MULTIMODAL, MODELING_3D, REFACTORING}

\* C15 (as claimed): for each of the four categories without a suffix,
\* _enhance_prompt returns the prompt unchanged, character for character.
C15_NoSuffixUnchanged ==
    (e_output # NotEnhanced /\ e_type \in NoSuffixTypes) => e_output = e_prompt

\* the call reached the remote service
RemoteCalled == ~(g_adapter \in {"gemini", "groq"} /\ g_adapter \in unconfigured)

C17_Sequential ==
    [][/\ Cardinality(inflight') <= 1
       /\ (pc' = "await") <=> (inflight' # {})
       /\ (inflight' \ inflight # {}) => inflight = {}]_vars

\* C17 witness: the third adapter call of a route call is outstanding, alone.
C17_Witness ==
    /\ pc = "await"
    /\ Len(calls) = 3
    /\ inflight = {3}

\* the number of calls made to adapter m
CallCount(m) == Cardinality({ k \in 1..Len(calls) : calls[k] = m })

\* C19: when an adapter call of a round that is not the last one returns a
\* success scored below 0.7, route_task's next step returns nothing and calls
\* the next provider of the list, or the first one of the next round; a
\* success outcome with quality below 0.7 is always one of the last round.
C19_LowQualityRetried ==
    [][/\ (/\ pc = "ready"
           /\ Scored(reply)
           /\ quality_check(reply).score < QualityThreshold
           /\ attempt < max_attempts - 1)
          => /\ pc' = "await"
             /\ outcome' = NoOutcome
             /\ <<attempt', idx'>> = IF idx < Len(preferred_models)
                                     THEN <<attempt, idx + 1>>
                                     ELSE <<attempt + 1, 1>>
             /\ calls' = Append(calls, preferred_models[idx'])
       /\ (/\ pc' = "done"
           /\ IsSuccess(outcome')
           /\ outcome'.quality_score < QualityThreshold)
          => outcome'.attempts = max_attempts']_vars

\* C19 witness: the first provider of round 1 of 2 returned a success scored
\* below 0.7 and route_task is now awaiting the second provider.
C19_Witness ==
    /\ pc = "await"
    /\ max_attempts = 2
    /\ attempt = 0
    /\ idx = 2
    /\ Len(roundScores) = 1
    /\ roundScores[1] < QualityThreshold

\* C20: the adapter calls of a route call follow the category's preference
\* list in order, round after round of the same list, so within a round each
\* provider is called at most once and in list order, and no provider is
\* called more than max_attempts times.
C20_ListOrderEachRound ==
    pc # "idle"
        => /\ IsPrefix(calls, Repeat(model_preferences[task_type], max_attempts))
           /\ \A m \in Adapters : CallCount(m) <= max_attempts

\* C20 witness: a route call with max_attempts = 2 in which every call failed
\* has called each provider of its list twice, in two rounds.
C20_Witness ==
    /\ pc = "done"
    /\ max_attempts = 2
    /\ IsFailure(outcome)
    /\ best = "none"
    /\ calls = model_preferences[task_type] \o model_preferences[task_type]
    /\ \A m \in Adapters : CallCount(m) \in {0, 2}

C21_Terminates ==
    /\ [](pc # "idle" => Len(calls) <= max_attempts * Len(preferred_models))
    /\ (pc \in {"await", "ready"}) ~> (pc = "done" /\ outcome # NoOutcome)

\* C21 witness: a route call over three providers with max_attempts = 2 has
\* ended after exactly six adapter calls.
C21_Witness ==
    /\ pc = "done"
    /\ outcome # NoOutcome
    /\ max_attempts = 2
    /\ Len(preferred_models) = 3
    /\ Len(calls) = 6

\* the call at (attempt, idx) is the last one the loops can make
LastCall == attempt = max_attempts - 1 /\ idx = Len(preferred_models)

\* C22: generate of a client constructed without an API key returns the
\* "not configured" failure whatever the remote service would do (it is not
\* called); route_task, resumed with that result, records its error as
\* last_error and calls the next provider, and ends with the failure outcome
\* only when this was the last call of the last round.
C22_UnavailableIsPerCallFailure ==
    [][(pc = "ready" /\ preferred_models[idx] \in unconfigured)
          => LET a == preferred_models[idx] IN
             /\ a \in {"gemini", "groq"}
             /\ reply = Failure(NotConfigured(a), a)
             /\ ~reply.success
             /\ \A remote \in Remotes(a) :
                   generate(a, unconfigured, remote, Len(calls)) = reply
             /\ pc' \in {"await", "done"}
                   => /\ last_error' = NotConfigured(a)
                      /\ IF LastCall
                         THEN /\ pc' = "done"
                              /\ IsFailure(outcome')
                              /\ calls' = calls
                         ELSE /\ pc' = "await"
                              /\ outcome' = NoOutcome
                              /\ calls' = Append(calls, preferred_models[idx'])
                              /\ <<attempt', idx'>> =
                                    IF idx < Len(preferred_models)
                                    THEN <<attempt, idx + 1>>
                                    ELSE <<attempt + 1, 1>>]_vars

\* C22 witness: the Groq client has no API key, its call was answered with
\* the "not configured" failure, and route_task is awaiting the next provider.
C22_Witness ==
    /\ pc = "await"
    /\ "groq" \in unconfigured
    /\ calls = <<"groq", "claude">>
    /\ reply = Failure(NotConfigured("groq"), "groq")
    /\ last_error = NotConfigured("groq")

IsUnknownModel(err) == err[1] = UnknownModel("")[1]

\* C23: the preference table has an entry for each of the nine TaskType
\* values, every entry is a non-empty list, and every name in it is one that
\* _call_model dispatches; so a route call's category is always a key of the
\* table (the default pair is not used), its list is the table's entry, and
\* the unknown-model error is never its last_error nor in its outcome.
C23_TableTotal ==
    /\ Cardinality(TaskType) = 9
    /\ DOMAIN model_preferences = TaskType
    /\ \A t \in TaskType :
          /\ Len(model_preferences[t]) >= 1
          /\ \A i \in 1..Len(model_preferences[t]) :
                /\ model_preferences[t][i] \in Adapters
                /\ ~call_model(model_preferences[t][i]).raised
    /\ pc # "idle"
          => /\ task_type \in DOMAIN model_preferences
             /\ preferred_models = model_preferences[task_type]
             /\ ~IsUnknownModel(last_error)
             /\ IsFailure(outcome) => ~IsUnknownModel(outcome.error[2])

\* C23 witness: a route call for the last category of the enumeration called
\* both providers of its table entry and ended in the failure outcome with a
\* provider's error.
C23_Witness ==
    /\ pc = "done"
    /\ task_type_arg = REFACTORING
    /\ preferred_models = <<"claude", "gpt-4">>
    /\ calls = <<"claude", "gpt-4">>
    /\ IsFailure(outcome)
    /\ outcome.error[2] = RemoteError("gpt-4", 2)

\* C24: a classified prompt that contains a fast-simple keyword and no
\* keyword of a category of higher priority is fast-simple if it has fewer
\* than 20 whitespace-separated words and code-generation otherwise.
C24_FastSimpleWordLimit ==
    ( /\ cls_result # NotCalled
      /\ HasKeyword(cls_prompt, FAST_SIMPLE)
      /\ \A i \in 1..Len(PriorityOrder) :
            PriorityOrder[i] # FAST_SIMPLE => ~HasKeyword(cls_prompt, PriorityOrder[i]) )
    => cls_result = IF WordCount(cls_prompt) < 20 THEN FAST_SIMPLE ELSE CODE_GENERATION

\* C24 witness: a prompt of exactly 20 words that starts with "simple" and
\* has no other keyword was classified code-generation.
C24_Witness ==
    /\ cls_prompt = Padded(<<"s","i","m","p","l","e">>, 20)
    /\ WordCount(cls_prompt) = 20
    /\ HasKeyword(cls_prompt, FAST_SIMPLE)
    /\ cls_result = CODE_GENERATION

\* the 1-based round in which the latest adapter call was made
RoundOfLatestCall == ((Len(calls) - 1) \div Len(preferred_models)) + 1

\* C25: the attempts field of a success outcome is the 1-based number of the
\* round in which the returned result was produced, between 1 and
\* max_attempts; the attempts field of a failure outcome is max_attempts.
C25_AttemptsCountsRounds ==
    pc = "done"
        => /\ IsSuccess(outcome)
                 => /\ outcome.content = reply.content
                    /\ outcome.attempts = RoundOfLatestCall
                    /\ 1 <= outcome.attempts
                    /\ outcome.attempts <= max_attempts
           /\ IsFailure(outcome) => outcome.attempts = max_attempts

\* C25 witness: the fourth adapter call, the second of round 2 over a list of
\* two providers, produced the returned result: attempts is 2.
C25_Witness ==
    /\ pc = "done"
    /\ IsSuccess(outcome)
    /\ Len(preferred_models) = 2
    /\ Len(calls) = 4
    /\ outcome.attempts = 2

\* the providers called so far, as a set
Tried == { mai.tried[k] : k \in 1..Len(mai.tried) }

\* C26: a generate call of MultiAIEngine calls initialized clients only, none
\* twice, first the chosen provider, then the fallback if it is another
\* initialized client; it returns the response of the first call that did not
\* raise, and raises "All AI providers failed" only when every initialized
\* client has been called and has raised.
C26_EachClientOnce ==
    mai.pc \in {"calling", "returned", "raised"}
        => /\ Tried \subseteq mai.clients
           /\ Cardinality(Tried) = Len(mai.tried)
           /\ mai.provider \in mai.clients
           /\ Len(mai.tried) >= 1 => mai.tried[1] = mai.provider
           /\ (Len(mai.tried) >= 2 /\ mai.fallback_ai \in mai.clients \ {mai.provider})
                 => mai.tried[2] = mai.fallback_ai
           /\ mai.pc = "calling" => mai.raisedBy = Tried
           /\ mai.pc = "returned"
                 => /\ mai.result = Response(mai.tried[Len(mai.tried)])
                    /\ mai.raisedBy = Tried \ {mai.tried[Len(mai.tried)]}
           /\ mai.pc = "raised"
                 => /\ mai.result = AllProvidersFailed
                    /\ Tried = mai.clients
                    /\ mai.raisedBy = mai.clients

\* C26 witness: with all four clients initialized the chosen provider, the
\* fallback and the first remaining client raised and the last one answered.
C26_Witness ==
    /\ mai.pc = "returned"
    /\ mai.clients = {"groq", "gemini", "claude", "openai"}
    /\ mai.provider = "claude"
    /\ mai.fallback_ai = "gemini"
    /\ mai.tried = <<"claude", "gemini", "groq", "openai">>
    /\ mai.result = Response("openai")

\* C27 as claimed: when every call of the chosen provider has failed, a
\* finished UltimateAI.generate has either returned the response of another
\* available provider or raised "All AI providers failed".
C27_FallbackOrAllFailed ==
    ( /\ ult.pc \in {"returned", "raised"}
      /\ ult.tried # <<>>
      /\ ult.failed = Cardinality({ k \in 1..Len(ult.tried) : ult.tried[k] = ult.tried[1] }) )
    => \/ /\ ult.pc = "returned"
          /\ \E q \in (ult.free_clients \cup ult.web_clients) \ {ult.tried[1]} :
                ult.result = Response(q)
       \/ /\ ult.pc = "raised"
          /\ ult.result = AllProvidersFailed

\* C28 as claimed: for a key with a positive rate_limit, usage_count never
\* exceeds rate_limit and no more than rate_limit requests are admitted in
\* one clock hour, also with concurrent verifications of the same key.
C28_RateLimitHolds ==
    (key_data.created /\ key_data.rate_limit > 0)
        => /\ key_data.usage_count <= key_data.rate_limit
           /\ \A h \in 0..MaxHours : admitted.hours[h] <= key_data.rate_limit

\* C29 as claimed: a finished broadcast_update has sent the message to every
\* connection that stayed in active_connections from its start to the end of
\* its send loop (delivered it, or had the send fail), whatever connections
\* were added or removed meanwhile, and no connection whose send failed is
\* still in active_connections.
C29_BroadcastReachesAll ==
    broadcast.pc = "done"
        => /\ broadcast.steady \subseteq broadcast.delivered \cup broadcast.failed
           /\ broadcast.failed \cap Members(active_connections) = {}

\* the keywords of a category that contain a keyword of a category checked
\* before it
Shadowed ==
    { k \in UNION { KeywordsOf(PriorityOrder[j]) : j \in 1..Len(PriorityOrder) } :
        \E j \in 1..Len(PriorityOrder) :
            /\ k \in KeywordsOf(PriorityOrder[j])
            /\ \E i \in 1..(j - 1) :
                  \E h \in KeywordsOf(PriorityOrder[i]) : Contains(k, h) }

\* C30: "build", "quick", "design pattern" and "system design" are the
\* keywords that contain a keyword of an earlier category ("ui", "design"),
\* and every classified prompt that contains one of them is creative-ui, not
\* planning, fast-simple or architecture.
C30_ShadowedKeywords ==
    /\ Shadowed = { <<"b","u","i","l","d">>,
                    <<"q","u","i","c","k">>,
                    <<"d","e","s","i","g","n"," ","p","a","t","t","e","r","n">>,
                    <<"s","y","s","t","e","m"," ","d","e","s","i","g","n">> }
    /\ (cls_result # NotCalled /\ AnyKeyword(Lower(cls_prompt), Shadowed))
          => /\ cls_result = CREATIVE_UI
             /\ cls_result \notin {PLANNING, FAST_SIMPLE, ARCHITECTURE}

\* C30 witness: "a quick scalable plan" has fast-simple, architecture and
\* planning keywords and was classified creative-ui.
C30_Witness ==
    /\ cls_prompt = <<"a"," ","q","u","i","c","k"," ","s","c","a","l","a","b","l","e"," ","p","l","a","n">>
    /\ HasKeyword(cls_prompt, FAST_SIMPLE)
    /\ HasKeyword(cls_prompt, ARCHITECTURE)
    /\ HasKeyword(cls_prompt, PLANNING)
    /\ cls_result = CREATIVE_UI

====
